---- MODULE Spec2Model ----
(***************************************************************************)
(* A model of flask_migrate/table.py and flask_migrate/cli.py: the         *)
(* TableSpec mutation API (add_column, remove_column, add_index,           *)
(* remove_index, get_index, check_index_columns), its file (write_file,    *)
(* read_file), ColumnSpec.build_column, the TableBuilder directory compile *)
(* (build_sqlalchemy_schema) and the command `db migrate`.                 *)
(*                                                                         *)
(* Strings are sequences of code points, so that Python's sorted() on      *)
(* strings and the identifier regular expression are computed, not         *)
(* assumed.  Python dicts are functions; a dict that lacks a key is a      *)
(* function whose DOMAIN lacks it.                                         *)
(***************************************************************************)
EXTENDS Integers, Sequences, FiniteSets, TLC

VARIABLES column_key, column, index_key, index, last, snap
VARIABLES bpc, metadata, listing, tables, pos, res, ret, processed, engine, dir, runs
VARIABLES cspec, ceng, cres
VARIABLES table_name, file, orig, fpc
VARIABLES ktext, kres
VARIABLES mpc, directory, on_disk, migrate_flag, upgrade_flag, do_migrate, do_upgrade,
          g_migrate_metadata, calls

tvars == <<column_key, column, index_key, index, last, snap>>
bvars == <<bpc, metadata, listing, tables, pos, res, ret, processed, engine, dir, runs>>
cvars == <<cspec, ceng, cres>>
fvars == <<table_name, file, orig, fpc>>
kvars == <<ktext, kres>>
mvars == <<mpc, directory, on_disk, migrate_flag, upgrade_flag, do_migrate, do_upgrade,
           g_migrate_metadata, calls>>
xvars == <<cvars, fvars, kvars, mvars>>
vars == <<column_key, column, index_key, index, last, snap,
          bpc, metadata, listing, tables, pos, res, ret, processed, engine, dir, runs,
          cspec, ceng, cres, table_name, file, orig, fpc, ktext, kres,
          mpc, directory, on_disk, migrate_flag, upgrade_flag, do_migrate, do_upgrade,
          g_migrate_metadata, calls>>

(***************************************************************************)
(* Bounds of the model.                                                    *)
(***************************************************************************)
\* longest back-reference list ('indexes') a column may reach
MaxBackRefs == 2
\* calls of build_sqlalchemy_schema in one behaviour
MaxRuns == 2

(***************************************************************************)
(* Strings.                                                                *)
(***************************************************************************)
\* "a", "b": identifiers;  "1": a string the identifier pattern rejects
ColA == <<97>>
ColB == <<98>>
ColBad == <<49>>
ColNames == {ColA, ColB, ColBad}
\* "name" (the literal of table.py line 250) and "ix"
StrName == <<110, 97, 109, 101>>
StrIx == <<105, 120>>
StrIa == <<105, 97>>
IdxNames == {StrName, StrIx, StrIa}

\* Python's str < str: code point by code point, a proper prefix is smaller
RECURSIVE LexLess(_, _)
LexLess(s, t) ==
    IF t = <<>> THEN FALSE
    ELSE IF s = <<>> THEN TRUE
    ELSE IF Head(s) < Head(t) THEN TRUE
    ELSE IF Head(s) > Head(t) THEN FALSE
    ELSE LexLess(Tail(s), Tail(t))

\* sorted(d.keys()): the keys of a dict in ascending order
RECURSIVE SortedKeys(_)
SortedKeys(S) ==
    IF S = {} THEN <<>>
    ELSE LET m == CHOOSE x \in S : \A y \in S \ {x} : LexLess(x, y)
         IN <<m>> \o SortedKeys(S \ {m})

\* insertion of one string into an ascending list, after its equals
RECURSIVE Insert(_, _)
Insert(x, l) ==
    IF l = <<>> THEN <<x>>
    ELSE IF LexLess(x, Head(l)) THEN <<x>> \o l
    ELSE <<Head(l)>> \o Insert(x, Tail(l))

\* sorted(list): ascending, duplicates kept
RECURSIVE SortedList(_)
SortedList(l) ==
    IF l = <<>> THEN <<>>
    ELSE Insert(l[Len(l)], SortedList(SubSeq(l, 1, Len(l) - 1)))

IsLetter(c) == (c >= 65 /\ c <= 90) \/ (c >= 97 /\ c <= 122) \/ c = 95
IsDigit(c) == c >= 48 /\ c <= 57

\* re.search(r'^[a-zA-Z_][a-zA-Z0-9_]*$', colname)
IsIdentifier(s) ==
    /\ s # <<>>
    /\ IsLetter(s[1])
    /\ \A i \in 2..Len(s) : IsLetter(s[i]) \/ IsDigit(s[i])

(***************************************************************************)
(* Dicts.                                                                  *)
(***************************************************************************)
EmptyDict == [x \in {} |-> x]
Put(d, k, v) == [x \in DOMAIN d \cup {k} |-> IF x = k THEN v ELSE d[x]]
Del(d, k) == [x \in DOMAIN d \ {k} |-> d[x]]

\* list(filter(key.__ne__, l))
RECURSIVE FilterNe(_, _)
FilterNe(key, l) ==
    IF l = <<>> THEN <<>>
    ELSE IF Head(l) = key THEN FilterNe(key, Tail(l))
    ELSE <<Head(l)>> \o FilterNe(key, Tail(l))

(***************************************************************************)
(* TableSpec.  T is the object: column_key and index_key are the dicts,    *)
(* index is the list of the index dicts, and column is the list of         *)
(* references to the column dicts of column_key; a column dict is          *)
(* referred to by the key it is stored under, so a change of a column's    *)
(* 'indexes' through column_key is seen through the list, as in Python.    *)
(***************************************************************************)
NewTable ==
    [column_key |-> EmptyDict, column |-> <<>>,
     index_key |-> EmptyDict, index |-> <<>>]

Return(T) == [ok |-> TRUE, err |-> "", t |-> T]
Raise(T, e) == [ok |-> FALSE, err |-> e, t |-> T]

\* the loop that rebuilds self.index from index_key
IndexView(ik) ==
    LET ks == SortedKeys(DOMAIN ik) IN [i \in 1..Len(ks) |-> ik[ks[i]]]

\* the loop that rebuilds self.column from column_key
ColumnView(ck) == SortedKeys(DOMAIN ck)

check_column(colname) ==
    IF ~IsIdentifier(colname) THEN [ok |-> FALSE, err |-> "Invalid column name"]
    ELSE [ok |-> TRUE, err |-> ""]

add_column(T, colspec) ==
    LET name == colspec.name IN
    IF name \in DOMAIN T.column_key THEN Raise(T, "Duplicate column")
    ELSE LET ck == Put(T.column_key, name, colspec)
         IN Return([T EXCEPT !.column_key = ck, !.column = ColumnView(ck)])

\* the loop of remove_index over the index's columns, from the i-th on
RECURSIVE remove_index_loop(_, _, _, _)
remove_index_loop(T, key, cols, i) ==
    IF i > Len(cols) THEN Return(T)
    ELSE LET c == cols[i].column IN
         IF c \notin DOMAIN T.column_key THEN Raise(T, "KeyError")
         ELSE LET cs == T.column_key[c] IN
              IF "indexes" \notin DOMAIN cs THEN Raise(T, "KeyError")
              ELSE LET l == FilterNe(key, cs.indexes)
                       cs2 == IF Len(l) = 0 THEN Del(cs, "indexes")
                              ELSE [cs EXCEPT !.indexes = l]
                   IN remove_index_loop(
                          [T EXCEPT !.column_key = Put(T.column_key, c, cs2)],
                          key, cols, i + 1)

remove_index(T, key) ==
    IF key \notin DOMAIN T.index_key THEN Raise(T, "Unknown index")
    ELSE LET r == remove_index_loop(T, key, T.index_key[key].columns, 1) IN
         IF ~r.ok THEN r
         ELSE LET ik == Del(r.t.index_key, key)
              IN Return([r.t EXCEPT !.index_key = ik, !.index = IndexView(ik)])

\* the loop of remove_column over the list object column_key[key]['indexes']
\* as it was when the loop began (remove_index rebinds the key to new lists)
RECURSIVE remove_column_loop(_, _, _)
remove_column_loop(T, idxs, i) ==
    IF i > Len(idxs) THEN Return(T)
    ELSE LET r == remove_index(T, idxs[i]) IN
         IF ~r.ok THEN r ELSE remove_column_loop(r.t, idxs, i + 1)

\* remove_column without the rebuild of self.column
remove_column_tail_stale(T, key) ==
    Return([T EXCEPT !.column_key = Del(T.column_key, key)])

remove_column_tail(T, key) ==
    LET ck == Del(T.column_key, key)
    IN Return([T EXCEPT !.column_key = ck, !.column = ColumnView(ck)])

remove_column(T, key) ==
    IF key \notin DOMAIN T.column_key THEN Raise(T, "Unknown column")
    ELSE IF "indexes" \in DOMAIN T.column_key[key]
    THEN LET r == remove_column_loop(T, T.column_key[key].indexes, 1) IN
         IF ~r.ok THEN r ELSE remove_column_tail(r.t, key)
    ELSE remove_column_tail(T, key)

\* the loop of add_index over idxspec['columns'], from the i-th on
RECURSIVE add_index_loop(_, _, _, _)
add_index_loop(T, name, cols, i) ==
    IF i > Len(cols) THEN Return(T)
    ELSE LET c == cols[i].column IN
         IF c \notin DOMAIN T.column_key THEN Raise(T, "KeyError")
         ELSE LET cd == T.column_key[c]
                  old == IF "indexes" \in DOMAIN cd THEN cd.indexes ELSE <<>>
                  cd2 == Put(cd, "indexes", SortedList(Append(old, name)))
              IN add_index_loop(
                     [T EXCEPT !.column_key = Put(T.column_key, c, cd2)],
                     name, cols, i + 1)

\* the key add_index stores the index under: the literal 'name'
add_index_key(idxspec) == StrName

add_index(T, idxspec) ==
    LET name == idxspec.name IN
    IF name \in DOMAIN T.index_key THEN Raise(T, "Duplicate index")
    ELSE LET T1 == [T EXCEPT !.index_key =
                        Put(T.index_key, add_index_key(idxspec), idxspec)]
             r == add_index_loop(T1, name, idxspec.columns, 1)
         IN IF ~r.ok THEN r
            ELSE Return([r.t EXCEPT !.index = IndexView(r.t.index_key)])

\* IndexSpec.__init__
IndexSpecInit(spec) ==
    IF ~(spec.type = "index" \/ spec.type = "unique")
    THEN [ok |-> FALSE, err |-> "Invalid type", val |-> spec]
    ELSE [ok |-> TRUE, err |-> "", val |-> spec]

get_index(T, name) ==
    IF name \notin DOMAIN T.index_key
    THEN [ok |-> FALSE, err |-> "Unknown index", val |-> <<>>]
    ELSE IndexSpecInit(T.index_key[name])

(***************************************************************************)
(* The caller of one TableSpec object.  Each action is one call; `last`    *)
(* records the call and how it ended.  `snap` is set by a successful       *)
(* add_column to the object as it was when that call began, kept (and      *)
(* marked done) by a remove_column of the same name that follows at once,  *)
(* and cleared by every other call.                                        *)
(***************************************************************************)
Table ==
    [column_key |-> column_key, column |-> column,
     index_key |-> index_key, index |-> index]

\* a column declaration (the spec fields listed in ColumnSpec)
ColDecl(n) ==
    [name |-> n, type |-> "integer", nullable |-> TRUE, default |-> "none"]

\* the 'columns' lists of the indexes handed to add_index
\* (one column, two columns, and one column named twice)
Ref(c) == [column |-> c]
ColRefs ==
    {<<Ref(ColA)>>, <<Ref(ColB)>>, <<Ref(ColA), Ref(ColB)>>, <<Ref(ColA), Ref(ColA)>>}

IdxDecls ==
    {[name |-> n, type |-> "index", columns |-> cs] : n \in IdxNames, cs \in ColRefs}

BackRefs(cd) == IF "indexes" \in DOMAIN cd THEN cd.indexes ELSE <<>>

WithinBounds(T) ==
    \A c \in DOMAIN T.column_key : Len(BackRefs(T.column_key[c])) <= MaxBackRefs

NoSnap == [set |-> FALSE, done |-> FALSE, key |-> <<>>, t |-> NewTable]

Call(op, key, cols, r) ==
    /\ WithinBounds(r.t)
    /\ column_key' = r.t.column_key
    /\ column' = r.t.column
    /\ index_key' = r.t.index_key
    /\ index' = r.t.index
    /\ last' = [op |-> op, key |-> key, cols |-> cols, ok |-> r.ok, err |-> r.err]
    /\ snap' = IF op = "add_column" /\ r.ok
               THEN [set |-> TRUE, done |-> FALSE, key |-> key, t |-> Table]
               ELSE IF op = "remove_column" /\ snap.set /\ ~snap.done /\ snap.key = key
               THEN [snap EXCEPT !.done = TRUE]
               ELSE NoSnap
    /\ UNCHANGED <<bvars, xvars>>

AddColumn ==
    \E n \in ColNames : Call("add_column", n, <<>>, add_column(Table, ColDecl(n)))

RemoveColumn ==
    \E n \in ColNames : Call("remove_column", n, <<>>, remove_column(Table, n))

AddIndex ==
    \E s \in IdxDecls : Call("add_index", s.name, s.columns, add_index(Table, s))

RemoveIndex ==
    \E n \in IdxNames : Call("remove_index", n, <<>>, remove_index(Table, n))

TableInit ==
    /\ column_key = EmptyDict
    /\ column = <<>>
    /\ index_key = EmptyDict
    /\ index = <<>>
    /\ last = [op |-> "new", key |-> <<>>, cols |-> <<>>, ok |-> TRUE, err |-> ""]
    /\ snap = NoSnap


(***************************************************************************)
(* ColumnSpec and IndexSpec.  A spec dict becomes the object's attributes; *)
(* reading an attribute the dict did not give raises AttributeError.       *)
(***************************************************************************)
TYPES ==
    {"string", "binary", "integer", "float", "currency", "boolean", "record",
     "date", "datetime", "json", "uuid"}

Engines == {"mysql", "postgresql", "sqlite"}

Val(v) == [ok |-> TRUE, err |-> "", val |-> v]
Fail(e) == [ok |-> FALSE, err |-> e, val |-> <<>>]

\* ColumnSpec.__init__
ColumnSpecInit(spec) ==
    IF "type" \notin DOMAIN spec THEN Fail("AttributeError")
    ELSE IF spec.type \notin TYPES THEN Fail("Invalid type")
    ELSE Val(spec)

Simple(t) == [t |-> t]
Sized(t, n) == [t |-> t, n |-> n]
None == [t |-> "None"]

\* the number a string of decimal digits writes
RECURSIVE DecValue(_)
DecValue(s) ==
    IF s = <<>> THEN 0
    ELSE 10 * DecValue(SubSeq(s, 1, Len(s) - 1)) + (s[Len(s)] - 48)

\* int(v) of a JSON number [int |-> n] or a JSON string [str |-> s]
PyInt(v) ==
    IF "int" \in DOMAIN v THEN Val(v.int)
    ELSE IF v.str # <<>> /\ \A i \in DOMAIN v.str : IsDigit(v.str[i])
    THEN Val(DecValue(v.str))
    ELSE Fail("ValueError")

\* the binary branch with BLOB where postgresql has BYTEA
BinaryType_generic(c, eng) ==
    IF c.length = "default" THEN Simple("BLOB")
    ELSE IF c.length = "long" THEN
        (IF eng = "mysql" THEN Simple("LONGBLOB")
         ELSE IF eng \in {"postgresql", "sqlite"} THEN Simple("BLOB")
         ELSE None)
    ELSE IF c.length = "specify" THEN
        (IF eng = "postgresql" THEN Simple("BLOB")
         ELSE Sized("VARBINARY", PyInt(c.length_specify).val))
    ELSE None

\* the branch of build_column for coltype 'binary'
BinaryType(c, eng) ==
    IF c.length = "default" THEN
        (IF eng = "postgresql" THEN Simple("BYTEA") ELSE Simple("BLOB"))
    ELSE IF c.length = "long" THEN
        (IF eng = "mysql" THEN Simple("LONGBLOB")
         ELSE IF eng = "postgresql" THEN Simple("BYTEA")
         ELSE IF eng = "sqlite" THEN Simple("BLOB")
         ELSE None)
    ELSE IF c.length = "specify" THEN
        (IF eng = "postgresql" THEN Simple("BYTEA")
         ELSE Sized("VARBINARY", PyInt(c.length_specify).val))
    ELSE None

\* the if/elif chain of build_column that chooses sqltype
SqlType(c, eng) ==
    IF c.type = "string" THEN
        IF c.length = "default" THEN Simple("Text")
        ELSE IF c.length = "long" THEN
            (IF eng = "mysql" THEN Simple("LONGTEXT") ELSE Simple("Text"))
        ELSE IF c.length = "specify" THEN Sized("VARCHAR", PyInt(c.length_specify).val)
        ELSE None
    ELSE IF c.type = "binary" THEN BinaryType(c, eng)
    ELSE IF c.type = "integer" THEN
        (IF eng = "sqlite" THEN Simple("Integer") ELSE Simple("BigInteger"))
    ELSE IF c.type = "float" THEN Simple("Float")
    ELSE IF c.type = "currency" THEN [t |-> "Numeric", n |-> 20, m |-> 2]
    ELSE IF c.type = "boolean" THEN Simple("Boolean")
    ELSE IF c.type = "record" THEN
        (IF eng = "sqlite" THEN Simple("Integer") ELSE Simple("BigInteger"))
    ELSE IF c.type = "date" THEN Simple("Date")
    ELSE IF c.type = "datetime" THEN Simple("DateTime")
    ELSE IF c.type = "json" THEN Simple("JSON")
    ELSE IF c.type = "uuid" THEN
        (IF eng = "postgresql" THEN Simple("UUID") ELSE Sized("VARBINARY", 16))
    ELSE None

\* the attributes build_column reads on its way, in the order it reads them
MissingAttr(c, eng) ==
    \/ (c.type \in {"string", "binary"} /\ "length" \notin DOMAIN c)
    \/ (/\ c.type \in {"string", "binary"}
        /\ "length" \in DOMAIN c
        /\ c.length = "specify"
        /\ ~(c.type = "binary" /\ eng = "postgresql")
        /\ "length_specify" \notin DOMAIN c)

\* int(self.length_specify) is reached and raises
BadInt(c, eng) ==
    /\ c.type \in {"string", "binary"}
    /\ c.length = "specify"
    /\ ~(c.type = "binary" /\ eng = "postgresql")
    /\ ~PyInt(c.length_specify).ok

\* a column is returned whatever sqltype is
TypeNotFound_never(sqltype) == FALSE

\* if sqltype is None
TypeNotFound(sqltype) == sqltype = None

build_column(c, eng) ==
    IF c.type \notin TYPES THEN Fail("Invalid type")
    ELSE IF MissingAttr(c, eng) THEN Fail("AttributeError")
    ELSE IF BadInt(c, eng) THEN Fail("ValueError")
    ELSE IF TypeNotFound(SqlType(c, eng)) THEN Fail("Type not found")
    ELSE IF "nullable" \notin DOMAIN c \/ "default" \notin DOMAIN c
         \/ "name" \notin DOMAIN c
    THEN Fail("AttributeError")
    ELSE LET base == [kind |-> "column", name |-> c.name,
                      sqltype |-> SqlType(c, eng), nullable |-> c.nullable,
                      primary_key |-> FALSE]
         IN IF c.default = "null" THEN Val(base @@ [server_default |-> "NULL"])
            ELSE IF c.default = "specify"
            THEN (IF "default_value" \notin DOMAIN c THEN Fail("AttributeError")
                  ELSE Val(base @@ [server_default |-> c.default_value]))
            ELSE Val(base)

\* the column texts of build_index: the name, or name(size) as name and size
IndexCols(cols) ==
    [i \in DOMAIN cols |->
        IF "size" \in DOMAIN cols[i]
        THEN [column |-> cols[i].column, size |-> cols[i].size]
        ELSE [column |-> cols[i].column]]

build_index(ix, eng) ==
    [kind |-> "index", name |-> ix.name, unique |-> (ix.type = "unique"),
     columns |-> IndexCols(ix.columns)]

(***************************************************************************)
(* TableSpec.read_file / from_json.                                        *)
(***************************************************************************)
RECURSIVE LoadByName(_, _, _)
LoadByName(d, l, i) ==
    IF i > Len(l) THEN d ELSE LoadByName(Put(d, l[i].name, l[i]), l, i + 1)

from_json(T, spec) ==
    LET ck == LoadByName(T.column_key, spec.column, 1)
        ik == LoadByName(T.index_key, spec.index, 1)
    IN [column_key |-> ck, column |-> ColumnView(ck),
        index_key |-> ik, index |-> IndexView(ik)]

\* a file is the JSON document it holds, or text json.load rejects
Unparsable == [bad |-> TRUE]

read_file(content) ==
    IF content = Unparsable THEN Fail("JSONDecodeError")
    ELSE Val([table |-> content.table, t |-> from_json(NewTable, content)])

(***************************************************************************)
(* TableBuilder.                                                           *)
(***************************************************************************)
\* get_columns: ColumnSpec of every entry of self.column, first failure wins
RECURSIVE get_columns(_, _)
get_columns(T, i) ==
    IF i > Len(T.column) THEN Val(<<>>)
    ELSE LET c == ColumnSpecInit(T.column_key[T.column[i]]) IN
         IF ~c.ok THEN Fail(c.err)
         ELSE LET rest == get_columns(T, i + 1) IN
              IF ~rest.ok THEN rest ELSE Val(<<c.val>> \o rest.val)

\* get_indexes: IndexSpec of every entry of self.index
RECURSIVE get_indexes(_, _)
get_indexes(T, i) ==
    IF i > Len(T.index) THEN Val(<<>>)
    ELSE LET x == IndexSpecInit(T.index[i]) IN
         IF ~x.ok THEN Fail(x.err)
         ELSE LET rest == get_indexes(T, i + 1) IN
              IF ~rest.ok THEN rest ELSE Val(<<x.val>> \o rest.val)

RECURSIVE build_columns(_, _, _)
build_columns(cs, eng, i) ==
    IF i > Len(cs) THEN Val(<<>>)
    ELSE LET c == build_column(cs[i], eng) IN
         IF ~c.ok THEN Fail(c.err)
         ELSE LET rest == build_columns(cs, eng, i + 1) IN
              IF ~rest.ok THEN rest ELSE Val(<<c.val>> \o rest.val)

\* the id column with the 64-bit type whatever the engine
IdColumn_big(eng) ==
    [kind |-> "column", name |-> <<105, 100>>, sqltype |-> Simple("BigInteger"),
     nullable |-> FALSE, primary_key |-> TRUE]

IdColumn(eng) ==
    [kind |-> "column", name |-> <<105, 100>>,
     sqltype |-> IF eng = "sqlite" THEN Simple("Integer") ELSE Simple("BigInteger"),
     nullable |-> FALSE, primary_key |-> TRUE]

\* build_sqlalchemy_table: the Table, and the MetaData it registered with.
\* Table(name, metadata, ...) raises for a name the MetaData already holds.
build_sqlalchemy_table(md, ts, eng) ==
    LET cs == get_columns(ts.t, 1) IN
    IF ~cs.ok THEN [ok |-> FALSE, err |-> cs.err, val |-> <<>>, md |-> md]
    ELSE LET bc == build_columns(cs.val, eng, 1) IN
    IF ~bc.ok THEN [ok |-> FALSE, err |-> bc.err, val |-> <<>>, md |-> md]
    ELSE LET xs == get_indexes(ts.t, 1) IN
    IF ~xs.ok THEN [ok |-> FALSE, err |-> xs.err, val |-> <<>>, md |-> md]
    ELSE LET table == [name |-> ts.table,
                       cols |-> <<IdColumn(eng)>> \o bc.val
                                \o [i \in DOMAIN xs.val |-> build_index(xs.val[i], eng)],
                       sqlite_autoincrement |-> (eng = "sqlite")]
         IN IF ts.table \in DOMAIN md
            THEN [ok |-> FALSE, err |-> "InvalidRequestError", val |-> <<>>, md |-> md]
            ELSE [ok |-> TRUE, err |-> "", val |-> table,
                  md |-> Put(md, ts.table, table)]

\* file names: "a.js", "b.js", "c.js", "b.txt"
FileA == <<97, 46, 106, 115>>
FileB == <<98, 46, 106, 115>>
FileC == <<99, 46, 106, 115>>
FileTxt == <<98, 46, 116, 120, 116>>

\* the pattern '*.js' of glob: a name that ends in .js and does not begin with a dot
MatchesJs(p) ==
    /\ Len(p) >= 3
    /\ SubSeq(p, Len(p) - 2, Len(p)) = <<46, 106, 115>>
    /\ p[1] # 46

\* the documents of the directories
DocTitle ==
    [table |-> "t1",
     column |-> <<[name |-> <<116>>, type |-> "string", length |-> "default",
                   nullable |-> FALSE, default |-> "none"]>>,
     index |-> <<>>]
DocAmount ==
    [table |-> "t2",
     column |-> <<[name |-> ColB, type |-> "currency", nullable |-> TRUE,
                   default |-> "null"],
                  [name |-> ColA, type |-> "binary", length |-> "long",
                   nullable |-> TRUE, default |-> "none",
                   indexes |-> <<<<105, 97>>, StrIx>>]>>,
     index |-> <<[name |-> StrIx, type |-> "unique",
                  columns |-> <<[column |-> ColA]>>],
                 [name |-> <<105, 97>>, type |-> "index",
                  columns |-> <<[column |-> ColA], [column |-> ColB]>>]>>]
DocBadType ==
    [table |-> "t3",
     column |-> <<[name |-> ColA, type |-> "text", nullable |-> TRUE,
                   default |-> "none"]>>,
     index |-> <<>>]
DocBadLength ==
    [table |-> "t4",
     column |-> <<[name |-> ColA, type |-> "string", length |-> "short",
                   nullable |-> TRUE, default |-> "none"]>>,
     index |-> <<>>]

\* the directories build_sqlalchemy_schema is run on: file name -> content
Dirs ==
    << (FileA :> DocTitle @@ FileB :> DocAmount @@ FileTxt :> Unparsable),
       (FileA :> DocTitle @@ FileB :> Unparsable @@ FileC :> DocAmount),
       (FileA :> DocTitle @@ FileB :> DocBadType @@ FileC :> DocAmount),
       (FileA :> DocAmount @@ FileB :> DocTitle @@ FileC :> DocBadLength),
       (FileA :> Unparsable @@ FileB :> DocTitle),
       (FileA :> DocTitle @@ FileC :> DocTitle),
       (FileB :> DocAmount),
       EmptyDict >>

\* the orders in which the file system may list a set of names
Listings(S) ==
    {l \in [1..Cardinality(S) -> S] : \A i, j \in DOMAIN l : l[i] = l[j] => i = j}

\* glob's list taken as it comes
listed_tables(l) == l

\* tables = sorted(glob.glob(pattern))
sorted_tables(l) == SortedList(l)

\* a new MetaData for every run
fresh_container(md) == EmptyDict

\* the container a run registers its tables with: self.metadata as it is
run_container(md) == md

BuilderInit ==
    /\ bpc = "idle"
    /\ metadata = EmptyDict
    /\ listing = <<>>
    /\ tables = <<>>
    /\ pos = 0
    /\ res = <<>>
    /\ ret = <<>>
    /\ processed = <<>>
    /\ engine = "mysql"
    /\ dir = 0
    /\ runs = 0

\* TableBuilder(**param): a new builder, with a MetaData of its own or with
\* the MetaData the caller passes (here the one the caller already holds)
Construct ==
    /\ bpc \in {"returned", "raised"}
    /\ bpc' = "idle"
    /\ \E md \in {EmptyDict, metadata} : metadata' = md
    /\ listing' = <<>>
    /\ tables' = <<>>
    /\ pos' = 0
    /\ res' = <<>>
    /\ ret' = <<>>
    /\ processed' = <<>>
    /\ UNCHANGED <<engine, dir, runs>>
    /\ UNCHANGED <<tvars, xvars>>

\* build_sqlalchemy_schema up to the loop: glob, sorted
Start ==
    /\ bpc \in {"idle", "returned", "raised"}
    /\ runs < MaxRuns
    /\ \E d \in DOMAIN Dirs, e \in Engines :
        \E l \in Listings({p \in DOMAIN Dirs[d] : MatchesJs(p)}) :
           /\ dir' = d
           /\ engine' = e
           /\ listing' = l
           /\ tables' = sorted_tables(l)
    /\ bpc' = "loop"
    /\ pos' = 1
    /\ res' = <<>>
    /\ ret' = <<>>
    /\ processed' = <<>>
    /\ runs' = runs + 1
    /\ metadata' = run_container(metadata)
    /\ UNCHANGED <<tvars, xvars>>

\* one turn of the loop: read_file, build_sqlalchemy_table, res.append.
\* An exception leaves the method: res, a local, is gone with it.
Step ==
    /\ bpc = "loop"
    /\ pos <= Len(tables)
    /\ LET path == tables[pos]
           ts == read_file(Dirs[dir][path])
           t == IF ts.ok THEN build_sqlalchemy_table(metadata, ts.val, engine)
                ELSE [ok |-> FALSE, err |-> ts.err, val |-> <<>>, md |-> metadata]
       IN /\ metadata' = t.md
          /\ processed' = Append(processed,
                 [path |-> path, ok |-> t.ok, err |-> t.err,
                  table |-> IF ts.ok THEN ts.val.table ELSE ""])
          /\ IF t.ok
             THEN /\ res' = Append(res, <<path, t.val>>)
                  /\ pos' = pos + 1
                  /\ bpc' = "loop"
             ELSE /\ res' = <<>>
                  /\ pos' = pos
                  /\ bpc' = "raised"
    /\ UNCHANGED <<listing, tables, ret, engine, dir, runs>>
    /\ UNCHANGED <<tvars, xvars>>

\* the loop is over: return res
Finish ==
    /\ bpc = "loop"
    /\ pos > Len(tables)
    /\ ret' = res
    /\ bpc' = "returned"
    /\ UNCHANGED <<metadata, listing, tables, pos, res, processed, engine, dir, runs>>
    /\ UNCHANGED <<tvars, xvars>>

NextBuild == Construct \/ Start \/ Step \/ Finish

(***************************************************************************)
(* ColumnSpec(spec).build_column(engine) on its own.                       *)
(***************************************************************************)
\* a key a spec dict may lack: no entry, or an entry with one of the values
Optional(k, vs) == {EmptyDict} \cup {(k :> v) : v \in vs}

\* length_specify as JSON gives it: 5, "10", "x"
LengthSpecifys == {[int |-> 5], [str |-> <<49, 48>>], [str |-> <<120>>]}

\* the column dicts a specification file may hold
ColumnDicts ==
    {[name |-> ColA, type |-> t, nullable |-> n, default |-> d] @@ l @@ ls
        @@ (IF d = "specify" THEN [default_value |-> <<48>>] ELSE EmptyDict) :
     t \in TYPES \cup {"text"},
     l \in Optional("length", {"default", "long", "specify", "short"}),
     ls \in Optional("length_specify", LengthSpecifys),
     n \in BOOLEAN,
     d \in {"none", "null", "specify"}}

\* the engine names of the option --engine: the three targets and another
EngineNames == Engines \cup {"oracle"}

NotCalled == [ok |-> FALSE, err |-> "not called", val |-> <<>>]

\* ColumnSpec(spec).build_column(engine)
compile(spec, eng) ==
    LET c == ColumnSpecInit(spec) IN
    IF ~c.ok THEN c ELSE build_column(c.val, eng)

ColumnIdle ==
    /\ cspec = EmptyDict
    /\ ceng = "mysql"
    /\ cres = NotCalled

ColumnInit ==
    /\ cspec \in ColumnDicts
    /\ ceng \in EngineNames
    /\ cres = NotCalled

BuildColumn ==
    /\ cspec # EmptyDict
    /\ cres = NotCalled
    /\ cres' = compile(cspec, ceng)
    /\ UNCHANGED <<tvars, bvars, cspec, ceng, fvars, kvars, mvars>>

(***************************************************************************)
(* TableSpec.write_file and TableSpec.read_file on one path.  The file is  *)
(* the document json.dump wrote: with sort_keys and a fixed indent its     *)
(* text is a function of the document, and json.load gives the document    *)
(* back, so the text is stood for by the document.                         *)
(***************************************************************************)
NoFile == [missing |-> TRUE]

\* to_json: the table name, a copy of each dict of self.column and self.index
to_json(T, name) ==
    [table |-> name,
     column |-> [i \in DOMAIN T.column |-> T.column_key[T.column[i]]],
     index |-> T.index]

FileIdle ==
    /\ table_name = "t1"
    /\ file = NoFile
    /\ orig = NoFile
    /\ fpc = "new"

\* TableSpec(table)
FileInit ==
    /\ table_name \in {"t1", "t2"}
    /\ file = NoFile
    /\ orig = NoFile
    /\ fpc = "new"

\* the mutation API, until the file is written and once after each read_file
Edit ==
    /\ file = NoFile \/ last.op = "read_file"
    /\ AddColumn \/ RemoveColumn \/ AddIndex \/ RemoveIndex

\* write_file(path); orig keeps what the path held before
WriteFile ==
    /\ last.op # "write_file"
    /\ file' = to_json(Table, table_name)
    /\ orig' = file
    /\ fpc' = IF last.op = "read_file" THEN "resaved" ELSE "saved"
    /\ last' = [op |-> "write_file", key |-> <<>>, cols |-> <<>>, ok |-> TRUE, err |-> ""]
    /\ snap' = NoSnap
    /\ UNCHANGED <<column_key, column, index_key, index, table_name, bvars, cvars, kvars, mvars>>

\* obj = TableSpec.read_file(path), right after the path was written
ReadFile ==
    /\ last.op = "write_file"
    /\ LET obj == read_file(file).val IN
          /\ table_name' = obj.table
          /\ column_key' = obj.t.column_key
          /\ column' = obj.t.column
          /\ index_key' = obj.t.index_key
          /\ index' = obj.t.index
    /\ fpc' = "loaded"
    /\ last' = [op |-> "read_file", key |-> <<>>, cols |-> <<>>, ok |-> TRUE, err |-> ""]
    /\ snap' = NoSnap
    /\ UNCHANGED <<file, orig, bvars, cvars, kvars, mvars>>

NextFile == Edit \/ WriteFile \/ ReadFile

(***************************************************************************)
(* TableSpec.check_index_columns.                                          *)
(***************************************************************************)
\* columns.split(','), from the i-th character on; cur is the part so far
RECURSIVE Split(_, _, _)
Split(s, i, cur) ==
    IF i > Len(s) THEN <<cur>>
    ELSE IF s[i] = 44 THEN <<cur>> \o Split(s, i + 1, <<>>)
    ELSE Split(s, i + 1, Append(cur, s[i]))

IsSpace(c) == c \in {9, 10, 11, 12, 13, 32}

RECURSIVE LStrip(_)
LStrip(s) == IF s # <<>> /\ IsSpace(Head(s)) THEN LStrip(Tail(s)) ELSE s

RECURSIVE RStrip(_)
RStrip(s) ==
    IF s # <<>> /\ IsSpace(s[Len(s)]) THEN RStrip(SubSeq(s, 1, Len(s) - 1)) ELSE s

\* col.strip()
Strip(s) == RStrip(LStrip(s))

\* the two patterns: an identifier, or an identifier, '(', digits, ')'.
\* size is None or the text of group 2
ParseCol(col) ==
    IF IsIdentifier(col) THEN [ok |-> TRUE, colname |-> col, size |-> None]
    ELSE LET ps == {i \in DOMAIN col : col[i] = 40} IN
         IF ps = {} THEN [ok |-> FALSE, colname |-> <<>>, size |-> None]
         ELSE LET p == CHOOSE i \in ps : \A j \in ps : i <= j
                  id == SubSeq(col, 1, p - 1)
                  ds == SubSeq(col, p + 1, Len(col) - 1)
              IN IF /\ IsIdentifier(id)
                    /\ col[Len(col)] = 41
                    /\ ds # <<>>
                    /\ \A i \in DOMAIN ds : IsDigit(ds[i])
                 THEN [ok |-> TRUE, colname |-> id, size |-> [str |-> ds]]
                 ELSE [ok |-> FALSE, colname |-> <<>>, size |-> None]

\* the loop of check_index_columns over pts, from the i-th on
RECURSIVE check_index_columns_loop(_, _, _, _)
check_index_columns_loop(T, pts, i, cols) ==
    IF i > Len(pts) THEN [ok |-> TRUE, err |-> "", val |-> cols, t |-> T]
    ELSE LET m == ParseCol(Strip(pts[i])) IN
         IF ~m.ok
         THEN [ok |-> FALSE, err |-> "Invalid index column specification",
               val |-> <<>>, t |-> T]
         ELSE IF m.colname \notin DOMAIN T.column_key
         THEN [ok |-> FALSE, err |-> "Index column not found", val |-> <<>>, t |-> T]
         ELSE LET rc == IF m.size = None THEN [column |-> m.colname]
                        ELSE [column |-> m.colname, size |-> m.size]
              IN check_index_columns_loop(T, pts, i + 1, Append(cols, rc))

check_index_columns(T, columns) ==
    check_index_columns_loop(T, Split(columns, 1, <<>>), 1, <<>>)

\* the elements of the texts: "a", " b(10)", "a(07) ", "c", "1", "b(x)", "b(1", ""
ColumnElements ==
    {<<97>>, <<32, 98, 40, 49, 48, 41>>, <<97, 40, 48, 55, 41, 32>>, <<99>>, <<49>>,
     <<98, 40, 120, 41>>, <<98, 40, 49>>, <<>>}

\* the texts handed to check_index_columns: one element, or two with a
\* comma, the first of them "a", " b(10)", "c" or "b(x)"
ColumnTexts ==
    ColumnElements \cup
    {e \o <<44>> \o f :
        e \in {<<97>>, <<32, 98, 40, 49, 48, 41>>, <<99>>, <<98, 40, 120, 41>>},
        f \in ColumnElements}

CheckIdle ==
    /\ ktext = <<>>
    /\ kres = NotCalled

CheckIndexColumns ==
    \E columns \in ColumnTexts :
      \E r \in {check_index_columns(Table, columns)} :
        /\ ktext' = columns
        /\ kres' = [ok |-> r.ok, err |-> r.err, val |-> r.val]
        /\ column_key' = r.t.column_key
        /\ column' = r.t.column
        /\ index_key' = r.t.index_key
        /\ index' = r.t.index
        /\ last' = [op |-> "check_index_columns", key |-> columns, cols |-> <<>>,
                    ok |-> r.ok, err |-> r.err]
        /\ snap' = NoSnap
        /\ UNCHANGED <<bvars, cvars, fvars, mvars>>

NextCheck == AddColumn \/ RemoveColumn \/ CheckIndexColumns

(***************************************************************************)
(* cli.py: the command `db migrate`.  Each invocation is a process with an *)
(* application context of its own, so g starts without migrate_metadata.   *)
(* init, migrate and upgrade of the flask_migrate package are calls that   *)
(* return; `calls` lists them in the order they are made.                  *)
(***************************************************************************)
\* the option --directory left out: default=None
NoDirectory == [none |-> TRUE]

\* g without the attribute migrate_metadata
Unset == [unset |-> TRUE]

\* lines 30-38: the steps the two flags ask for
Steps(m, u) ==
    IF (m /\ u) \/ ~(m \/ u) THEN [do_migrate |-> TRUE, do_upgrade |-> TRUE]
    ELSE IF m THEN [do_migrate |-> TRUE, do_upgrade |-> FALSE]
    ELSE [do_migrate |-> FALSE, do_upgrade |-> TRUE]

\* os.path.isdir(directory): a TypeError for None
isdir(d, exists) == IF d = NoDirectory THEN Fail("TypeError") ELSE Val(exists)

\* build_sqlalchemy_schema's exception taken as a return
after_build_swallowed(b) == "handover"

\* where migrate() is after line 42: an exception of the compile leaves it
after_build(b) == IF b = "raised" THEN "failed" ELSE "handover"

CliIdle ==
    /\ mpc = "idle"
    /\ directory = NoDirectory
    /\ on_disk = FALSE
    /\ migrate_flag = FALSE
    /\ upgrade_flag = FALSE
    /\ do_migrate = FALSE
    /\ do_upgrade = FALSE
    /\ g_migrate_metadata = Unset
    /\ calls = <<>>

\* lines 28-41: the options, do_migrate and do_upgrade, tb = TableBuilder()
Invoke ==
    /\ mpc \in {"idle", "done", "failed"}
    /\ runs < MaxRuns
    /\ \E d \in {NoDirectory, [path |-> "migrations"]}, x, m, u \in BOOLEAN :
          /\ directory' = d
          /\ on_disk' = x
          /\ migrate_flag' = m
          /\ upgrade_flag' = u
          /\ do_migrate' = Steps(m, u).do_migrate
          /\ do_upgrade' = Steps(m, u).do_upgrade
    /\ g_migrate_metadata' = Unset
    /\ calls' = <<>>
    /\ mpc' = "build"
    /\ bpc' = "idle"
    /\ metadata' = EmptyDict
    /\ listing' = <<>>
    /\ tables' = <<>>
    /\ pos' = 0
    /\ res' = <<>>
    /\ ret' = <<>>
    /\ processed' = <<>>
    /\ UNCHANGED <<engine, dir, runs, tvars, cvars, fvars, kvars>>

\* line 42: tb.build_sqlalchemy_schema(path, engine=engine)
Build ==
    /\ mpc = "build"
    /\ (bpc = "idle" /\ Start) \/ Step \/ Finish

\* line 42 is over; line 43-45: g.migrate_metadata = tb.metadata
Handover ==
    /\ mpc = "build"
    /\ bpc \in {"returned", "raised"}
    /\ mpc' = IF after_build(bpc) = "handover" THEN "isdir" ELSE "failed"
    /\ g_migrate_metadata' =
          IF after_build(bpc) = "handover" THEN [md |-> metadata] ELSE g_migrate_metadata
    /\ UNCHANGED <<directory, on_disk, migrate_flag, upgrade_flag, do_migrate,
                   do_upgrade, calls, tvars, bvars, cvars, fvars, kvars>>

\* lines 46-47: if not os.path.isdir(directory): _init(directory)
InitDirectory ==
    /\ mpc = "isdir"
    /\ LET there == isdir(directory, on_disk) IN
          IF ~there.ok THEN mpc' = "failed" /\ calls' = calls
          ELSE /\ mpc' = "migrate"
               /\ calls' = IF ~there.val THEN Append(calls, "init") ELSE calls
    /\ UNCHANGED <<directory, on_disk, migrate_flag, upgrade_flag, do_migrate,
                   do_upgrade, g_migrate_metadata, tvars, bvars, cvars, fvars, kvars>>

\* lines 48-49: if do_migrate: _migrate(directory)
Migrate ==
    /\ mpc = "migrate"
    /\ mpc' = "upgrade"
    /\ calls' = IF do_migrate THEN Append(calls, "migrate") ELSE calls
    /\ UNCHANGED <<directory, on_disk, migrate_flag, upgrade_flag, do_migrate,
                   do_upgrade, g_migrate_metadata, tvars, bvars, cvars, fvars, kvars>>

\* lines 50-51: if do_upgrade: _upgrade(directory)
Upgrade ==
    /\ mpc = "upgrade"
    /\ mpc' = "done"
    /\ calls' = IF do_upgrade THEN Append(calls, "upgrade") ELSE calls
    /\ UNCHANGED <<directory, on_disk, migrate_flag, upgrade_flag, do_migrate,
                   do_upgrade, g_migrate_metadata, tvars, bvars, cvars, fvars, kvars>>

NextCli == Invoke \/ Build \/ Handover \/ InitDirectory \/ Migrate \/ Upgrade

XIdle == ColumnIdle /\ FileIdle /\ CheckIdle /\ CliIdle

Init == TableInit /\ BuilderInit /\ XIdle

InitColumn == TableInit /\ BuilderInit /\ ColumnInit /\ FileIdle /\ CheckIdle /\ CliIdle

InitFile == TableInit /\ BuilderInit /\ ColumnIdle /\ FileInit /\ CheckIdle /\ CliIdle

SpecColumn == InitColumn /\ [][BuildColumn]_vars

SpecFile == InitFile /\ [][NextFile]_vars

SpecCheck == Init /\ [][NextCheck]_vars

SpecCli == Init /\ [][NextCli]_vars

Next == AddColumn \/ RemoveColumn \/ AddIndex \/ RemoveIndex

Spec == Init /\ [][Next]_vars

SpecBuild == Init /\ [][NextBuild]_vars

(***************************************************************************)
(* Properties of the mutation API.                                         *)
(***************************************************************************)
\* the columns an index dict names
RefCols(spec) == {spec.columns[i].column : i \in DOMAIN spec.columns}

\* the index dicts of the mapping
Stored(T) == {T.index_key[k] : k \in DOMAIN T.index_key}

\* an index dict named n is stored, its columns are declared and carry n
Added(T, n) ==
    \E s \in Stored(T) :
        /\ s.name = n
        /\ \A c \in RefCols(s) :
               /\ c \in DOMAIN T.column_key
               /\ \E i \in DOMAIN BackRefs(T.column_key[c]) :
                      BackRefs(T.column_key[c])[i] = n

StrictlyAscending(l) == \A i, j \in DOMAIN l : i < j => LexLess(l[i], l[j])

\* C1: every column named by a stored index (in the mapping or in the
\* sorted view) is a declared column of the table
C1_CrossReference ==
    /\ \A s \in Stored(Table) : RefCols(s) \subseteq DOMAIN column_key
    /\ \A i \in DOMAIN index : RefCols(index[i]) \subseteq DOMAIN column_key

\* C2: a call that fails leaves both mappings, both views and every
\* back-reference list as they were
C2_NoPartialMutation == [][(~last'.ok) => (Table' = Table)]_vars

\* C3: add_index(spec) on a table with no index named spec.name and with
\* every referenced column declared succeeds, get_index(spec.name) then
\* returns spec, the mapping gains exactly the key spec.name and keeps its
\* other entries
C3_AddIndexKeyedByName ==
    [][(/\ last'.op = "add_index"
        /\ \A s \in Stored(Table) : s.name # last'.key
        /\ \A i \in DOMAIN last'.cols : last'.cols[i].column \in DOMAIN column_key)
       => (/\ last'.ok
           /\ get_index(Table', last'.key).ok
           /\ get_index(Table', last'.key).val.name = last'.key
           /\ get_index(Table', last'.key).val.columns = last'.cols
           /\ DOMAIN index_key' = DOMAIN index_key \cup {last'.key}
           /\ last'.key \notin DOMAIN index_key
           /\ \A k \in DOMAIN index_key : index_key'[k] = index_key[k])]_vars

\* C4: add_index of a name that an added index carries is rejected as a
\* duplicate, and no two stored indexes carry the same name
C4_DuplicateIndexRejected ==
    [][/\ (last'.op = "add_index" /\ Added(Table, last'.key))
           => (~last'.ok /\ last'.err = "Duplicate index")
       /\ \A k1, k2 \in DOMAIN index_key' :
              index_key'[k1].name = index_key'[k2].name => k1 = k2]_vars

\* C5: every declared column's back-reference list is ascending without
\* duplicates and holds exactly the names of the stored indexes that name
\* the column; the list is absent exactly when there is no such index
C5_BackReferences ==
    \A c \in DOMAIN column_key :
        LET l == BackRefs(column_key[c])
            users == {s.name : s \in {x \in Stored(Table) : c \in RefCols(x)}}
        IN /\ StrictlyAscending(l)
           /\ {l[i] : i \in DOMAIN l} = users
           /\ ("indexes" \in DOMAIN column_key[c]) <=> (users # {})

\* C6: remove_column(c) of a declared column that an added index names
\* succeeds, removes c and every index naming c, get_index of such an index
\* then fails with Unknown index, and no back-reference list names it
C6_CascadingRemoval ==
    [][(/\ last'.op = "remove_column"
        /\ last'.key \in DOMAIN column_key
        /\ \E s \in Stored(Table) : last'.key \in RefCols(s) /\ Added(Table, s.name))
       => (/\ last'.ok
           /\ last'.key \notin DOMAIN column_key'
           /\ \A s \in Stored(Table') : last'.key \notin RefCols(s)
           /\ \A s \in Stored(Table) : last'.key \in RefCols(s) =>
                  /\ ~get_index(Table', s.name).ok
                  /\ get_index(Table', s.name).err = "Unknown index"
                  /\ \A c \in DOMAIN column_key' :
                         \A i \in DOMAIN BackRefs(column_key'[c]) :
                             BackRefs(column_key'[c])[i] # s.name)]_vars

\* C7: the column view is the column mapping's entries in ascending order
\* of name, one per key, and the index view is the index mapping's entries
\* in ascending order of name, one per key
C7_SortedViews ==
    /\ StrictlyAscending(column)
    /\ {column[i] : i \in DOMAIN column} = DOMAIN column_key
    /\ \A c \in DOMAIN column_key : column_key[c].name = c
    /\ StrictlyAscending([i \in DOMAIN index |-> index[i].name])
    /\ {index[i] : i \in DOMAIN index} = Stored(Table)
    /\ Len(index) = Cardinality(DOMAIN index_key)

\* C8: add_column of a name that is no identifier fails with Invalid column
\* name, add_column of a declared name fails with Duplicate column, and all
\* declared column names are identifiers, pairwise distinct
C8_ColumnNames ==
    [][/\ (last'.op = "add_column" /\ ~IsIdentifier(last'.key))
           => (~last'.ok /\ last'.err = "Invalid column name")
       /\ (last'.op = "add_column" /\ IsIdentifier(last'.key)
                                  /\ last'.key \in DOMAIN column_key)
           => (~last'.ok /\ last'.err = "Duplicate column")
       /\ \A c \in DOMAIN column_key' : IsIdentifier(c)
       /\ \A i, j \in DOMAIN column' : column'[i] = column'[j] => i = j]_vars

\* C9: add_column of an undeclared name followed at once by remove_column
\* of that name succeeds twice and restores the column mapping, the column
\* view, the index mapping and view and every back-reference list
C9_AddThenRemove ==
    /\ (last.op = "add_column" /\ ~last.ok) => last.key \in DOMAIN column_key
    /\ snap.done => (last.ok /\ Table = snap.t)

\* C9 witness: the pair has run on a table that holds another column with a
\* back-reference list and a stored index
C9_Witness ==
    /\ snap.done
    /\ last.op = "remove_column"
    /\ index_key # EmptyDict
    /\ \E c \in DOMAIN column_key : "indexes" \in DOMAIN column_key[c]
    /\ Cardinality(DOMAIN column_key) >= 2

(***************************************************************************)
(* Properties of the directory compile.                                    *)
(***************************************************************************)
\* C10: when the k-th file fails, no later file is processed, nothing is
\* returned, and the builder's MetaData holds no table of the files that
\* were compiled before the failure
C10_FailFastNoPartialSchema ==
    bpc = "raised" =>
        /\ Len(processed) = pos
        /\ \A i \in DOMAIN processed :
               /\ processed[i].path = tables[i]
               /\ processed[i].ok <=> (i < pos)
        /\ ret = <<>>
        /\ \A i \in DOMAIN processed :
               processed[i].ok => processed[i].table \notin DOMAIN metadata

\* C11: the files are processed in ascending order of their paths whatever
\* the order the file system lists them in, and the returned list holds one
\* pair per discovered file, in that order
C11_SortedProcessing ==
    bpc # "idle" =>
        /\ {listing[i] : i \in DOMAIN listing}
               = {p \in DOMAIN Dirs[dir] : MatchesJs(p)}
        /\ Len(tables) = Len(listing)
        /\ {tables[i] : i \in DOMAIN tables} = {listing[i] : i \in DOMAIN listing}
        /\ StrictlyAscending(tables)
        /\ \A i \in DOMAIN processed : processed[i].path = tables[i]
        /\ bpc = "returned" =>
               /\ Len(ret) = Len(listing)
               /\ Len(processed) = Len(listing)
               /\ \A i \in DOMAIN ret : ret[i][1] = tables[i]

\* C11 witness: a run has returned two pairs for a directory the file
\* system listed in another than ascending order
C11_Witness ==
    /\ bpc = "returned"
    /\ Len(ret) >= 2
    /\ listing # tables

\* the column names and the index names a document declares
DocColNames(doc) == {doc.column[i].name : i \in DOMAIN doc.column}
DocIdxNames(doc) == {doc.index[i].name : i \in DOMAIN doc.index}

\* C12: a compiled table begins with the column id, a primary key that is
\* not nullable, Integer for sqlite and BigInteger otherwise; the declared
\* columns follow in ascending order of name, then the declared indexes in
\* ascending order of name; sqlite_autoincrement is set exactly for sqlite
C12_TableShape ==
    \A i \in DOMAIN res :
        LET t == res[i][2]
            doc == Dirs[dir][res[i][1]]
            n == Cardinality(DocColNames(doc))
            m == Cardinality(DocIdxNames(doc))
        IN /\ t.name = doc.table
           /\ Len(t.cols) = 1 + n + m
           /\ t.cols[1].kind = "column"
           /\ t.cols[1].name = <<105, 100>>
           /\ t.cols[1].nullable = FALSE
           /\ t.cols[1].primary_key = TRUE
           /\ t.cols[1].sqltype = IF engine = "sqlite" THEN [t |-> "Integer"]
                                  ELSE [t |-> "BigInteger"]
           /\ \A j \in 2..(n + 1) :
                  /\ t.cols[j].kind = "column"
                  /\ t.cols[j].name \in DocColNames(doc)
                  /\ t.cols[j].primary_key = FALSE
           /\ StrictlyAscending([j \in 1..n |-> t.cols[j + 1].name])
           /\ \A j \in (n + 2)..(n + m + 1) :
                  /\ t.cols[j].kind = "index"
                  /\ t.cols[j].name \in DocIdxNames(doc)
           /\ StrictlyAscending([j \in 1..m |-> t.cols[n + 1 + j].name])
           /\ t.sqlite_autoincrement <=> (engine = "sqlite")

\* C12 witness: a table with two columns and two indexes, declared out of
\* order, was compiled for sqlite
C12_Witness ==
    /\ bpc = "returned"
    /\ engine = "sqlite"
    /\ \E i \in DOMAIN res : Len(res[i][2].cols) >= 5

MappingRow(t, l, N) ==
    CASE t = "string" /\ l = "default" ->
            <<Simple("Text"), Simple("Text"), Simple("Text")>>
      [] t = "string" /\ l = "long" ->
            <<Simple("LONGTEXT"), Simple("Text"), Simple("Text")>>
      [] t = "string" /\ l = "specify" ->
            <<Sized("VARCHAR", N), Sized("VARCHAR", N), Sized("VARCHAR", N)>>
      [] t = "binary" /\ l = "default" ->
            <<Simple("BLOB"), Simple("BYTEA"), Simple("BLOB")>>
      [] t = "binary" /\ l = "long" ->
            <<Simple("LONGBLOB"), Simple("BYTEA"), Simple("BLOB")>>
      [] t = "binary" /\ l = "specify" ->
            <<Sized("VARBINARY", N), Simple("BYTEA"), Sized("VARBINARY", N)>>
      [] t = "integer" ->
            <<Simple("BigInteger"), Simple("BigInteger"), Simple("Integer")>>
      [] t = "record" ->
            <<Simple("BigInteger"), Simple("BigInteger"), Simple("Integer")>>
      [] t = "float" -> <<Simple("Float"), Simple("Float"), Simple("Float")>>
      [] t = "currency" ->
            <<[t |-> "Numeric", n |-> 20, m |-> 2],
              [t |-> "Numeric", n |-> 20, m |-> 2],
              [t |-> "Numeric", n |-> 20, m |-> 2]>>
      [] t = "boolean" -> <<Simple("Boolean"), Simple("Boolean"), Simple("Boolean")>>
      [] t = "date" -> <<Simple("Date"), Simple("Date"), Simple("Date")>>
      [] t = "datetime" ->
            <<Simple("DateTime"), Simple("DateTime"), Simple("DateTime")>>
      [] t = "json" -> <<Simple("JSON"), Simple("JSON"), Simple("JSON")>>
      [] t = "uuid" ->
            <<Sized("VARBINARY", 16), Simple("UUID"), Sized("VARBINARY", 16)>>

EngineColumn(eng) ==
    CASE eng = "mysql" -> 1 [] eng = "postgresql" -> 2 [] eng = "sqlite" -> 3

\* the type has no length, or the dict gives one of the three lengths and,
\* for specify, a length_specify that is a number
RowApplies(spec) ==
    /\ spec.type \in TYPES
    /\ spec.type \in {"string", "binary"} =>
          /\ "length" \in DOMAIN spec
          /\ spec.length \in {"default", "long", "specify"}
          /\ spec.length = "specify" =>
                /\ "length_specify" \in DOMAIN spec
                /\ PyInt(spec.length_specify).ok

RowOf(spec) ==
    MappingRow(spec.type,
               IF spec.type \in {"string", "binary"} THEN spec.length ELSE "",
               IF spec.type \in {"string", "binary"} /\ spec.length = "specify"
               THEN PyInt(spec.length_specify).val ELSE 0)

\* C13: for a declared type, a length of default, long or specify(N) where
\* the type has one, and one of the three engines, build_column returns a
\* column whose type is the entry of the type-mapping table
C13_TypeMapping ==
    (cres # NotCalled /\ ceng \in Engines /\ RowApplies(cspec)) =>
        /\ cres.ok
        /\ cres.val.sqltype = RowOf(cspec)[EngineColumn(ceng)]

\* C13 witness: binary with specify("10") compiled for postgresql is BYTEA
C13_Witness ==
    /\ cres.ok
    /\ ceng = "postgresql"
    /\ cspec.type = "binary"
    /\ cspec.length = "specify"
    /\ "length_specify" \in DOMAIN cspec
    /\ cspec.length_specify = [str |-> <<49, 48>>]
    /\ cres.val.sqltype = Simple("BYTEA")

\* C14: build_column never returns a column whose type is None, and for
\* each of the three engines every type of TYPES has a length with which
\* it compiles
C14_NoUnresolvedType ==
    /\ (cres # NotCalled /\ cres.ok) => cres.val.sqltype # None
    /\ \A eng \in Engines, t \in TYPES :
          \E spec \in ColumnDicts :
              /\ spec.type = t
              /\ compile(spec, eng).ok
              /\ compile(spec, eng).val.sqltype # None

\* C14 witness: a length outside the three, or an engine outside the three,
\* has been refused with 'Type not found'
C14_Witness ==
    /\ cres.err = "Type not found"
    /\ \/ (cspec.type = "string" /\ cspec.length = "short" /\ ceng = "mysql")
       \/ (cspec.type = "binary" /\ cspec.length = "long" /\ ceng = "oracle")

(***************************************************************************)
(* Properties of the specification file.                                   *)
(***************************************************************************)
NamesOf(l) == [i \in DOMAIN l |-> l[i].name]

\* a document whose column entries and index entries are each in ascending
\* order of name, no name twice
WellFormedDoc(d) ==
    /\ d # NoFile
    /\ StrictlyAscending(NamesOf(d.column))
    /\ StrictlyAscending(NamesOf(d.index))

\* C15: a file written by write_file, read by read_file and written again
\* with nothing in between is the same document, its column entries and
\* its index entries in ascending order of name
C15_RoundTrip ==
    fpc = "resaved" =>
        /\ file = orig
        /\ WellFormedDoc(file)

(***************************************************************************)
(* Properties of check_index_columns.                                      *)
(***************************************************************************)
\* the elements of a text, stripped
ElementsOf(text) ==
    LET pts == Split(text, 1, <<>>) IN [i \in DOMAIN pts |-> Strip(pts[i])]

\* the reference the element stands for: size is the integer written
ReferenceOf(el) ==
    LET m == ParseCol(el) IN
    IF m.size = None THEN [column |-> m.colname]
    ELSE [column |-> m.colname, size |-> [int |-> DecValue(m.size.str)]]

\* what the call is to give on a table with the columns declared
ExpectedOf(text, declared) ==
    LET els == ElementsOf(text)
        bad == {i \in DOMAIN els : ~ParseCol(els[i]).ok}
        unk == {i \in DOMAIN els \ bad : ParseCol(els[i]).colname \notin declared}
    IN [ok |-> bad = {} /\ unk = {},
        errs |-> (IF bad # {} THEN {"Invalid index column specification"} ELSE {})
                 \cup (IF unk # {} THEN {"Index column not found"} ELSE {}),
        val |-> IF bad = {} /\ unk = {}
                THEN [i \in DOMAIN els |-> ReferenceOf(els[i])] ELSE <<>>]

\* C16: check_index_columns returns one reference per element in input
\* order, {column} for an identifier and {column, size} with the integer
\* written for identifier(n); it fails with 'Invalid index column
\* specification' when an element is malformed and with 'Index column not
\* found' when a column is not declared; the table is as it was
C16_CheckIndexColumns ==
    [][last'.op = "check_index_columns" =>
          \E x \in {ExpectedOf(ktext', DOMAIN column_key)} :
              /\ Table' = Table
              /\ kres'.ok = x.ok
              /\ x.ok => kres'.val = x.val
              /\ ~x.ok => kres'.err \in x.errs]_vars

(***************************************************************************)
(* Properties of remove_index.                                             *)
(***************************************************************************)
\* C19: remove_index(name) fails with 'Unknown index' when no index of that
\* name is stored; otherwise it succeeds, also for an index that names a
\* column twice, and afterwards the name is in no back-reference list, no
\* back-reference list is empty, the index is not stored, and the other
\* indexes and back-reference entries are as they were
C19_RemoveIndex ==
    [][last'.op = "remove_index" =>
          LET name == last'.key
              named == {s \in Stored(Table) : s.name = name}
          IN IF named = {}
             THEN /\ ~last'.ok
                  /\ last'.err = "Unknown index"
                  /\ Table' = Table
             ELSE /\ last'.ok
                  /\ Stored(Table') = Stored(Table) \ named
                  /\ DOMAIN column_key' = DOMAIN column_key
                  /\ \A c \in DOMAIN column_key :
                        /\ BackRefs(column_key'[c]) = FilterNe(name, BackRefs(column_key[c]))
                        /\ "indexes" \in DOMAIN column_key'[c] =>
                               column_key'[c].indexes # <<>>]_vars

(***************************************************************************)
(* Properties of the command.                                              *)
(***************************************************************************)
\* C17: when build_sqlalchemy_schema raises inside migrate(), no init,
\* migrate or upgrade is called and g.migrate_metadata is not set
C17_NothingAfterCompileError ==
    (mpc # "idle" /\ bpc = "raised") =>
        /\ calls = <<>>
        /\ g_migrate_metadata = Unset
        /\ mpc \in {"build", "failed"}

\* C17 witness: the command has ended on a compile error after a table was
\* registered
C17_Witness ==
    /\ mpc = "failed"
    /\ bpc = "raised"
    /\ metadata # EmptyDict
    /\ calls = <<>>

\* the calls the flags ask for, init first when the directory is not there
Workflow(m, u, there) ==
    (IF there THEN <<>> ELSE <<"init">>)
    \o (IF m \/ ~u THEN <<"migrate">> ELSE <<>>)
    \o (IF u \/ ~m THEN <<"upgrade">> ELSE <<>>)

\* C20: after a compile that succeeded the command ends having called init
\* (when the directory does not exist), then migrate, then upgrade, both
\* when the flags are equal and only the flagged one otherwise, so that one
\* of migrate and upgrade is always called
C20_WorkflowOrder ==
    /\ (mpc \in {"done", "failed"} /\ bpc = "returned") =>
          /\ mpc = "done"
          /\ calls = Workflow(migrate_flag, upgrade_flag, on_disk)
          /\ \E i \in DOMAIN calls : calls[i] \in {"migrate", "upgrade"}
    /\ (mpc \notin {"idle", "done", "failed"} /\ calls # <<>>) =>
          \E n \in 0..3 :
              calls = SubSeq(Workflow(migrate_flag, upgrade_flag, on_disk), 1, n)

====
